---------------------------- MODULE Spec2Model ----------------------------
(***************************************************************************)
(* A model of btclibwallet's utility core:                                 *)
(*                                                                         *)
(*   - the PGP word list seed codec (ByteToMnemonic, EncodeMnemonic,       *)
(*     DecodeMnemonics, DecodeUserInput, checksumByte),                    *)
(*   - the seed vault (naclLoadFromPass, encryptWalletSeed,                *)
(*     decryptWalletSeed),                                                 *)
(*   - the transactional batch (MultiWallet.batchDbTransaction).           *)
(*                                                                         *)
(* Strings are sequences of character codes, byte slices are sequences of  *)
(* 0..255, so that trimming, splitting, lower-casing, hex decoding and     *)
(* the word table lookups are computed as the Go code computes them.       *)
(* SHA-256 is computed bit for bit (FIPS 180-4).  scrypt and NaCl          *)
(* secretbox are the only idealised primitives: their outputs are terms.   *)
(*                                                                         *)
(* Three specifications share the module: SpecCodec, SpecVault, SpecBatch. *)
(***************************************************************************)
EXTENDS Integers, Sequences, FiniteSets, TLC

VARIABLES
    \* --- codec ---
    cpc,        \* "start" | "phrase" | "decoded"
    cseed,      \* the seed bytes the scenario starts from
    ckind,      \* how cinput was produced
    cmut,       \* 1-based index of the removed / duplicated word (0: none)
    cinput,     \* the string handed to DecodeUserInput
    cout,       \* what DecodeUserInput returned
    \* --- vault ---
    vpc,        \* "start" | "sealed" | "opened"
    vpass,      \* passphrase given to encryptWalletSeed
    vseed,      \* seed string given to encryptWalletSeed
    vblob,      \* what encryptWalletSeed returned
    vpass2,     \* passphrase given to decryptWalletSeed
    vout,       \* what decryptWalletSeed returned
    \* --- batch ---
    bpc,        \* position inside batchDbTransaction
    db,         \* the backend's committed records
    dbBefore,   \* db when the current call began
    tx,         \* the open transaction's view of the records
    txOpen,     \* whether a transaction is open
    written,    \* keys written through the handle in this call
    opOutcome,  \* how dbOp ended
    panicked,   \* the local variable of batchDbTransaction
    err,        \* the named result of batchDbTransaction
    calls,      \* backend calls made by this call, in order
    failures,   \* backend failures that happened in this call
    result,     \* what the caller of batchDbTransaction observed
    nbatch      \* number of calls started

codecVars == <<cpc, cseed, ckind, cmut, cinput, cout>>
vaultVars == <<vpc, vpass, vseed, vblob, vpass2, vout>>
batchVars == <<bpc, db, dbBefore, tx, txOpen, written, opOutcome, panicked,
               err, calls, failures, result, nbatch>>
vars == <<codecVars, vaultVars, batchVars>>

Byte == 0..255

----------------------------------------------------------------------------
(* crypto/sha256: Sum256.  A 32-bit word is a pair <<hi, lo>> of 16-bit    *)
(* halves; the bitwise functions go through 4-bit tables.                  *)

RECURSIVE BitOp3(_, _, _, _, _)
BitOp3(tt, x, y, z, n) ==
    IF n = 0 THEN 0
    ELSE tt[x % 2][y % 2][z % 2]
         + 2 * BitOp3(tt, x \div 2, y \div 2, z \div 2, n - 1)

Bit == 0..1
Nibble == 0..15
xor3Bit == [x \in Bit |-> [y \in Bit |-> [z \in Bit |-> (x + y + z) % 2]]]
chBit   == [x \in Bit |-> [y \in Bit |-> [z \in Bit |-> IF x = 1 THEN y ELSE z]]]
majBit  == [x \in Bit |-> [y \in Bit |-> [z \in Bit |-> IF x + y + z >= 2 THEN 1 ELSE 0]]]
Xor3Nibble ==
    [x \in Nibble |-> [y \in Nibble |-> [z \in Nibble |-> BitOp3(xor3Bit, x, y, z, 4)]]]
ChNibble ==
    [x \in Nibble |-> [y \in Nibble |-> [z \in Nibble |-> BitOp3(chBit, x, y, z, 4)]]]
MajNibble ==
    [x \in Nibble |-> [y \in Nibble |-> [z \in Nibble |-> BitOp3(majBit, x, y, z, 4)]]]

Op16(tab, x, y, z) ==
      tab[x \div 4096][y \div 4096][z \div 4096] * 4096
    + tab[(x \div 256) % 16][(y \div 256) % 16][(z \div 256) % 16] * 256
    + tab[(x \div 16) % 16][(y \div 16) % 16][(z \div 16) % 16] * 16
    + tab[x % 16][y % 16][z % 16]
Op32(tab, x, y, z) == <<Op16(tab, x[1], y[1], z[1]), Op16(tab, x[2], y[2], z[2])>>

RotR(x, n) ==
    LET w == IF n >= 16 THEN <<x[2], x[1]>> ELSE x
        m == IF n >= 16 THEN n - 16 ELSE n
        p == 2 ^ m
        q == 2 ^ (16 - m)
    IN  <<(w[1] \div p) + (w[2] % p) * q, (w[2] \div p) + (w[1] % p) * q>>

ShR(x, n) ==
    LET p == 2 ^ n
        q == 2 ^ (16 - n)
    IN  <<x[1] \div p, (x[2] \div p) + (x[1] % p) * q>>

Add32(x, y) ==
    LET lo == x[2] + y[2]
    IN  <<(x[1] + y[1] + (lo \div 65536)) % 65536, lo % 65536>>

K256 == <<
    <<17034, 12184>>, <<28983, 17553>>, <<46528, 64463>>, <<59829, 56229>>,
    <<14678, 49755>>, <<23025, 4593>>, <<37439, 33444>>, <<43804, 24277>>,
    <<55303, 43672>>, <<4739, 23297>>, <<9265, 34238>>, <<21772, 32195>>,
    <<29374, 23924>>, <<32990, 45566>>, <<39900, 1703>>, <<49563, 61812>>,
    <<58523, 27073>>, <<61374, 18310>>, <<4033, 40390>>, <<9228, 41420>>,
    <<11753, 11375>>, <<19060, 33962>>, <<23728, 43484>>, <<30457, 35034>>,
    <<38974, 20818>>, <<43057, 50797>>, <<45059, 10184>>, <<48985, 32711>>,
    <<50912, 3059>>, <<54695, 37191>>, <<1738, 25425>>, <<5161, 10599>>,
    <<10167, 2693>>, <<11803, 8504>>, <<19756, 28156>>, <<21304, 3347>>,
    <<25866, 29524>>, <<30314, 2747>>, <<33218, 51502>>, <<37490, 11397>>,
    <<41663, 59553>>, <<43034, 26187>>, <<49739, 35696>>, <<51052, 20899>>,
    <<53650, 59417>>, <<54937, 1572>>, <<62478, 13701>>, <<4202, 41072>>,
    <<6564, 49430>>, <<7735, 27656>>, <<10056, 30540>>, <<13488, 48309>>,
    <<14620, 3251>>, <<20184, 43594>>, <<23452, 51791>>, <<26670, 28659>>,
    <<29839, 33518>>, <<30885, 25455>>, <<33992, 30740>>, <<36039, 520>>,
    <<37054, 65530>>, <<42064, 27883>>, <<48889, 41975>>, <<50801, 30962>>
>>

H0 == <<
    <<27145, 58983>>, <<47975, 44677>>, <<15470, 62322>>, <<42319, 62778>>,
    <<20750, 21119>>, <<39685, 26764>>, <<8067, 55723>>, <<23520, 52505>>
>>

\* Padding: 0x80, zeros up to 56 mod 64, the bit length as 8 big-endian bytes.
Pad(data) ==
    LET n == Len(data)
        z == (119 - n) % 64
    IN  data \o <<128>> \o [i \in 1..z |-> 0]
        \o <<0, 0, 0, 0, 0, (n * 8) \div 65536, ((n * 8) \div 256) % 256, (n * 8) % 256>>

BlockWords(p, b) ==
    [t \in 1..16 |->
        LET o == (b - 1) * 64 + (t - 1) * 4
        IN  <<p[o + 1] * 256 + p[o + 2], p[o + 3] * 256 + p[o + 4]>>]

\* The message schedule; the test on nw makes the evaluation strict.
RECURSIVE Sched(_, _)
Sched(w, t) ==
    IF t > 64 THEN w
    ELSE LET s0 == Op32(Xor3Nibble, RotR(w[t - 15], 7), RotR(w[t - 15], 18), ShR(w[t - 15], 3))
             s1 == Op32(Xor3Nibble, RotR(w[t - 2], 17), RotR(w[t - 2], 19), ShR(w[t - 2], 10))
             nw == Append(w, Add32(Add32(w[t - 16], s0), Add32(w[t - 7], s1)))
         IN  IF Len(nw) = t THEN Sched(nw, t + 1) ELSE <<>>

\* The 64 rounds over the working variables s = <<a, b, c, d, e, f, g, h>>.
RECURSIVE Rounds(_, _, _)
Rounds(s, w, t) ==
    IF t > 64 THEN s
    ELSE LET S1 == Op32(Xor3Nibble, RotR(s[5], 6), RotR(s[5], 11), RotR(s[5], 25))
             ch == Op32(ChNibble, s[5], s[6], s[7])
             t1 == Add32(Add32(Add32(s[8], S1), Add32(ch, K256[t])), w[t])
             S0 == Op32(Xor3Nibble, RotR(s[1], 2), RotR(s[1], 13), RotR(s[1], 22))
             mj == Op32(MajNibble, s[1], s[2], s[3])
             t2 == Add32(S0, mj)
             ns == <<Add32(t1, t2), s[1], s[2], s[3], Add32(s[4], t1), s[5], s[6], s[7]>>
         IN  IF ns[1][1] >= 0 /\ ns[5][1] >= 0 THEN Rounds(ns, w, t + 1) ELSE <<>>

Compress(h, blk) ==
    LET s == Rounds(h, Sched(blk, 17), 1)
    IN  [i \in 1..8 |-> Add32(h[i], s[i])]

RECURSIVE Blocks(_, _, _)
Blocks(h, p, b) ==
    IF (b - 1) * 64 >= Len(p) THEN h
    ELSE Blocks(Compress(h, BlockWords(p, b)), p, b + 1)

WordBytes(x) == <<x[1] \div 256, x[1] % 256, x[2] \div 256, x[2] % 256>>

\* The digest: the eight words of the final hash value, big-endian.
Digest(h) ==
    WordBytes(h[1]) \o WordBytes(h[2]) \o WordBytes(h[3]) \o WordBytes(h[4])
    \o WordBytes(h[5]) \o WordBytes(h[6]) \o WordBytes(h[7]) \o WordBytes(h[8])

Sum256(data) == Digest(Blocks(H0, Pad(data), 1))

----------------------------------------------------------------------------
(* const AlternatingWords, split at the line breaks: wordList, 512 entries. *)
(* Entry 2*b is the word of byte b at an even position, entry 2*b + 1 its  *)
(* word at an odd position (indices from 0; the tuple below is 1-based).   *)

wordList == <<
    <<97, 97, 114, 100, 118, 97, 114, 107>>,  \* 0 aardvark
    <<97, 100, 114, 111, 105, 116, 110, 101, 115, 115>>,  \* 1 adroitness
    <<97, 98, 115, 117, 114, 100>>,  \* 2 absurd
    <<97, 100, 118, 105, 115, 101, 114>>,  \* 3 adviser
    <<97, 99, 99, 114, 117, 101>>,  \* 4 accrue
    <<97, 102, 116, 101, 114, 109, 97, 116, 104>>,  \* 5 aftermath
    <<97, 99, 109, 101>>,  \* 6 acme
    <<97, 103, 103, 114, 101, 103, 97, 116, 101>>,  \* 7 aggregate
    <<97, 100, 114, 105, 102, 116>>,  \* 8 adrift
    <<97, 108, 107, 97, 108, 105>>,  \* 9 alkali
    <<97, 100, 117, 108, 116>>,  \* 10 adult
    <<97, 108, 109, 105, 103, 104, 116, 121>>,  \* 11 almighty
    <<97, 102, 102, 108, 105, 99, 116>>,  \* 12 afflict
    <<97, 109, 117, 108, 101, 116>>,  \* 13 amulet
    <<97, 104, 101, 97, 100>>,  \* 14 ahead
    <<97, 109, 117, 115, 101, 109, 101, 110, 116>>,  \* 15 amusement
    <<97, 105, 109, 108, 101, 115, 115>>,  \* 16 aimless
    <<97, 110, 116, 101, 110, 110, 97>>,  \* 17 antenna
    <<65, 108, 103, 111, 108>>,  \* 18 Algol
    <<97, 112, 112, 108, 105, 99, 97, 110, 116>>,  \* 19 applicant
    <<97, 108, 108, 111, 119>>,  \* 20 allow
    <<65, 112, 111, 108, 108, 111>>,  \* 21 Apollo
    <<97, 108, 111, 110, 101>>,  \* 22 alone
    <<97, 114, 109, 105, 115, 116, 105, 99, 101>>,  \* 23 armistice
    <<97, 109, 109, 111>>,  \* 24 ammo
    <<97, 114, 116, 105, 99, 108, 101>>,  \* 25 article
    <<97, 110, 99, 105, 101, 110, 116>>,  \* 26 ancient
    <<97, 115, 116, 101, 114, 111, 105, 100>>,  \* 27 asteroid
    <<97, 112, 112, 108, 101>>,  \* 28 apple
    <<65, 116, 108, 97, 110, 116, 105, 99>>,  \* 29 Atlantic
    <<97, 114, 116, 105, 115, 116>>,  \* 30 artist
    <<97, 116, 109, 111, 115, 112, 104, 101, 114, 101>>,  \* 31 atmosphere
    <<97, 115, 115, 117, 109, 101>>,  \* 32 assume
    <<97, 117, 116, 111, 112, 115, 121>>,  \* 33 autopsy
    <<65, 116, 104, 101, 110, 115>>,  \* 34 Athens
    <<66, 97, 98, 121, 108, 111, 110>>,  \* 35 Babylon
    <<97, 116, 108, 97, 115>>,  \* 36 atlas
    <<98, 97, 99, 107, 119, 97, 116, 101, 114>>,  \* 37 backwater
    <<65, 122, 116, 101, 99>>,  \* 38 Aztec
    <<98, 97, 114, 98, 101, 99, 117, 101>>,  \* 39 barbecue
    <<98, 97, 98, 111, 111, 110>>,  \* 40 baboon
    <<98, 101, 108, 111, 119, 103, 114, 111, 117, 110, 100>>,  \* 41 belowground
    <<98, 97, 99, 107, 102, 105, 101, 108, 100>>,  \* 42 backfield
    <<98, 105, 102, 111, 99, 97, 108, 115>>,  \* 43 bifocals
    <<98, 97, 99, 107, 119, 97, 114, 100>>,  \* 44 backward
    <<98, 111, 100, 121, 103, 117, 97, 114, 100>>,  \* 45 bodyguard
    <<98, 97, 110, 106, 111>>,  \* 46 banjo
    <<98, 111, 111, 107, 115, 101, 108, 108, 101, 114>>,  \* 47 bookseller
    <<98, 101, 97, 109, 105, 110, 103>>,  \* 48 beaming
    <<98, 111, 114, 100, 101, 114, 108, 105, 110, 101>>,  \* 49 borderline
    <<98, 101, 100, 108, 97, 109, 112>>,  \* 50 bedlamp
    <<98, 111, 116, 116, 111, 109, 108, 101, 115, 115>>,  \* 51 bottomless
    <<98, 101, 101, 104, 105, 118, 101>>,  \* 52 beehive
    <<66, 114, 97, 100, 98, 117, 114, 121>>,  \* 53 Bradbury
    <<98, 101, 101, 115, 119, 97, 120>>,  \* 54 beeswax
    <<98, 114, 97, 118, 97, 100, 111>>,  \* 55 bravado
    <<98, 101, 102, 114, 105, 101, 110, 100>>,  \* 56 befriend
    <<66, 114, 97, 122, 105, 108, 105, 97, 110>>,  \* 57 Brazilian
    <<66, 101, 108, 102, 97, 115, 116>>,  \* 58 Belfast
    <<98, 114, 101, 97, 107, 97, 119, 97, 121>>,  \* 59 breakaway
    <<98, 101, 114, 115, 101, 114, 107>>,  \* 60 berserk
    <<66, 117, 114, 108, 105, 110, 103, 116, 111, 110>>,  \* 61 Burlington
    <<98, 105, 108, 108, 105, 97, 114, 100>>,  \* 62 billiard
    <<98, 117, 115, 105, 110, 101, 115, 115, 109, 97, 110>>,  \* 63 businessman
    <<98, 105, 115, 111, 110>>,  \* 64 bison
    <<98, 117, 116, 116, 101, 114, 102, 97, 116>>,  \* 65 butterfat
    <<98, 108, 97, 99, 107, 106, 97, 99, 107>>,  \* 66 blackjack
    <<67, 97, 109, 101, 108, 111, 116>>,  \* 67 Camelot
    <<98, 108, 111, 99, 107, 97, 100, 101>>,  \* 68 blockade
    <<99, 97, 110, 100, 105, 100, 97, 116, 101>>,  \* 69 candidate
    <<98, 108, 111, 119, 116, 111, 114, 99, 104>>,  \* 70 blowtorch
    <<99, 97, 110, 110, 111, 110, 98, 97, 108, 108>>,  \* 71 cannonball
    <<98, 108, 117, 101, 98, 105, 114, 100>>,  \* 72 bluebird
    <<67, 97, 112, 114, 105, 99, 111, 114, 110>>,  \* 73 Capricorn
    <<98, 111, 109, 98, 97, 115, 116>>,  \* 74 bombast
    <<99, 97, 114, 97, 118, 97, 110>>,  \* 75 caravan
    <<98, 111, 111, 107, 115, 104, 101, 108, 102>>,  \* 76 bookshelf
    <<99, 97, 114, 101, 116, 97, 107, 101, 114>>,  \* 77 caretaker
    <<98, 114, 97, 99, 107, 105, 115, 104>>,  \* 78 brackish
    <<99, 101, 108, 101, 98, 114, 97, 116, 101>>,  \* 79 celebrate
    <<98, 114, 101, 97, 100, 108, 105, 110, 101>>,  \* 80 breadline
    <<99, 101, 108, 108, 117, 108, 111, 115, 101>>,  \* 81 cellulose
    <<98, 114, 101, 97, 107, 117, 112>>,  \* 82 breakup
    <<99, 101, 114, 116, 105, 102, 121>>,  \* 83 certify
    <<98, 114, 105, 99, 107, 121, 97, 114, 100>>,  \* 84 brickyard
    <<99, 104, 97, 109, 98, 101, 114, 109, 97, 105, 100>>,  \* 85 chambermaid
    <<98, 114, 105, 101, 102, 99, 97, 115, 101>>,  \* 86 briefcase
    <<67, 104, 101, 114, 111, 107, 101, 101>>,  \* 87 Cherokee
    <<66, 117, 114, 98, 97, 110, 107>>,  \* 88 Burbank
    <<67, 104, 105, 99, 97, 103, 111>>,  \* 89 Chicago
    <<98, 117, 116, 116, 111, 110>>,  \* 90 button
    <<99, 108, 101, 114, 103, 121, 109, 97, 110>>,  \* 91 clergyman
    <<98, 117, 122, 122, 97, 114, 100>>,  \* 92 buzzard
    <<99, 111, 104, 101, 114, 101, 110, 99, 101>>,  \* 93 coherence
    <<99, 101, 109, 101, 110, 116>>,  \* 94 cement
    <<99, 111, 109, 98, 117, 115, 116, 105, 111, 110>>,  \* 95 combustion
    <<99, 104, 97, 105, 114, 108, 105, 102, 116>>,  \* 96 chairlift
    <<99, 111, 109, 109, 97, 110, 100, 111>>,  \* 97 commando
    <<99, 104, 97, 116, 116, 101, 114>>,  \* 98 chatter
    <<99, 111, 109, 112, 97, 110, 121>>,  \* 99 company
    <<99, 104, 101, 99, 107, 117, 112>>,  \* 100 checkup
    <<99, 111, 109, 112, 111, 110, 101, 110, 116>>,  \* 101 component
    <<99, 104, 105, 115, 101, 108>>,  \* 102 chisel
    <<99, 111, 110, 99, 117, 114, 114, 101, 110, 116>>,  \* 103 concurrent
    <<99, 104, 111, 107, 105, 110, 103>>,  \* 104 choking
    <<99, 111, 110, 102, 105, 100, 101, 110, 99, 101>>,  \* 105 confidence
    <<99, 104, 111, 112, 112, 101, 114>>,  \* 106 chopper
    <<99, 111, 110, 102, 111, 114, 109, 105, 115, 116>>,  \* 107 conformist
    <<67, 104, 114, 105, 115, 116, 109, 97, 115>>,  \* 108 Christmas
    <<99, 111, 110, 103, 114, 101, 103, 97, 116, 101>>,  \* 109 congregate
    <<99, 108, 97, 109, 115, 104, 101, 108, 108>>,  \* 110 clamshell
    <<99, 111, 110, 115, 101, 110, 115, 117, 115>>,  \* 111 consensus
    <<99, 108, 97, 115, 115, 105, 99>>,  \* 112 classic
    <<99, 111, 110, 115, 117, 108, 116, 105, 110, 103>>,  \* 113 consulting
    <<99, 108, 97, 115, 115, 114, 111, 111, 109>>,  \* 114 classroom
    <<99, 111, 114, 112, 111, 114, 97, 116, 101>>,  \* 115 corporate
    <<99, 108, 101, 97, 110, 117, 112>>,  \* 116 cleanup
    <<99, 111, 114, 114, 111, 115, 105, 111, 110>>,  \* 117 corrosion
    <<99, 108, 111, 99, 107, 119, 111, 114, 107>>,  \* 118 clockwork
    <<99, 111, 117, 110, 99, 105, 108, 109, 97, 110>>,  \* 119 councilman
    <<99, 111, 98, 114, 97>>,  \* 120 cobra
    <<99, 114, 111, 115, 115, 111, 118, 101, 114>>,  \* 121 crossover
    <<99, 111, 109, 109, 101, 110, 99, 101>>,  \* 122 commence
    <<99, 114, 117, 99, 105, 102, 105, 120>>,  \* 123 crucifix
    <<99, 111, 110, 99, 101, 114, 116>>,  \* 124 concert
    <<99, 117, 109, 98, 101, 114, 115, 111, 109, 101>>,  \* 125 cumbersome
    <<99, 111, 119, 98, 101, 108, 108>>,  \* 126 cowbell
    <<99, 117, 115, 116, 111, 109, 101, 114>>,  \* 127 customer
    <<99, 114, 97, 99, 107, 100, 111, 119, 110>>,  \* 128 crackdown
    <<68, 97, 107, 111, 116, 97>>,  \* 129 Dakota
    <<99, 114, 97, 110, 107, 121>>,  \* 130 cranky
    <<100, 101, 99, 97, 100, 101, 110, 99, 101>>,  \* 131 decadence
    <<99, 114, 111, 119, 102, 111, 111, 116>>,  \* 132 crowfoot
    <<68, 101, 99, 101, 109, 98, 101, 114>>,  \* 133 December
    <<99, 114, 117, 99, 105, 97, 108>>,  \* 134 crucial
    <<100, 101, 99, 105, 109, 97, 108>>,  \* 135 decimal
    <<99, 114, 117, 109, 112, 108, 101, 100>>,  \* 136 crumpled
    <<100, 101, 115, 105, 103, 110, 105, 110, 103>>,  \* 137 designing
    <<99, 114, 117, 115, 97, 100, 101>>,  \* 138 crusade
    <<100, 101, 116, 101, 99, 116, 111, 114>>,  \* 139 detector
    <<99, 117, 98, 105, 99>>,  \* 140 cubic
    <<100, 101, 116, 101, 114, 103, 101, 110, 116>>,  \* 141 detergent
    <<100, 97, 115, 104, 98, 111, 97, 114, 100>>,  \* 142 dashboard
    <<100, 101, 116, 101, 114, 109, 105, 110, 101>>,  \* 143 determine
    <<100, 101, 97, 100, 98, 111, 108, 116>>,  \* 144 deadbolt
    <<100, 105, 99, 116, 97, 116, 111, 114>>,  \* 145 dictator
    <<100, 101, 99, 107, 104, 97, 110, 100>>,  \* 146 deckhand
    <<100, 105, 110, 111, 115, 97, 117, 114>>,  \* 147 dinosaur
    <<100, 111, 103, 115, 108, 101, 100>>,  \* 148 dogsled
    <<100, 105, 114, 101, 99, 116, 105, 111, 110>>,  \* 149 direction
    <<100, 114, 97, 103, 110, 101, 116>>,  \* 150 dragnet
    <<100, 105, 115, 97, 98, 108, 101>>,  \* 151 disable
    <<100, 114, 97, 105, 110, 97, 103, 101>>,  \* 152 drainage
    <<100, 105, 115, 98, 101, 108, 105, 101, 102>>,  \* 153 disbelief
    <<100, 114, 101, 97, 100, 102, 117, 108>>,  \* 154 dreadful
    <<100, 105, 115, 114, 117, 112, 116, 105, 118, 101>>,  \* 155 disruptive
    <<100, 114, 105, 102, 116, 101, 114>>,  \* 156 drifter
    <<100, 105, 115, 116, 111, 114, 116, 105, 111, 110>>,  \* 157 distortion
    <<100, 114, 111, 112, 112, 101, 114>>,  \* 158 dropper
    <<100, 111, 99, 117, 109, 101, 110, 116>>,  \* 159 document
    <<100, 114, 117, 109, 98, 101, 97, 116>>,  \* 160 drumbeat
    <<101, 109, 98, 101, 122, 122, 108, 101>>,  \* 161 embezzle
    <<100, 114, 117, 110, 107, 101, 110>>,  \* 162 drunken
    <<101, 110, 99, 104, 97, 110, 116, 105, 110, 103>>,  \* 163 enchanting
    <<68, 117, 112, 111, 110, 116>>,  \* 164 Dupont
    <<101, 110, 114, 111, 108, 108, 109, 101, 110, 116>>,  \* 165 enrollment
    <<100, 119, 101, 108, 108, 105, 110, 103>>,  \* 166 dwelling
    <<101, 110, 116, 101, 114, 112, 114, 105, 115, 101>>,  \* 167 enterprise
    <<101, 97, 116, 105, 110, 103>>,  \* 168 eating
    <<101, 113, 117, 97, 116, 105, 111, 110>>,  \* 169 equation
    <<101, 100, 105, 99, 116>>,  \* 170 edict
    <<101, 113, 117, 105, 112, 109, 101, 110, 116>>,  \* 171 equipment
    <<101, 103, 103, 104, 101, 97, 100>>,  \* 172 egghead
    <<101, 115, 99, 97, 112, 97, 100, 101>>,  \* 173 escapade
    <<101, 105, 103, 104, 116, 98, 97, 108, 108>>,  \* 174 eightball
    <<69, 115, 107, 105, 109, 111>>,  \* 175 Eskimo
    <<101, 110, 100, 111, 114, 115, 101>>,  \* 176 endorse
    <<101, 118, 101, 114, 121, 100, 97, 121>>,  \* 177 everyday
    <<101, 110, 100, 111, 119>>,  \* 178 endow
    <<101, 120, 97, 109, 105, 110, 101>>,  \* 179 examine
    <<101, 110, 108, 105, 115, 116>>,  \* 180 enlist
    <<101, 120, 105, 115, 116, 101, 110, 99, 101>>,  \* 181 existence
    <<101, 114, 97, 115, 101>>,  \* 182 erase
    <<101, 120, 111, 100, 117, 115>>,  \* 183 exodus
    <<101, 115, 99, 97, 112, 101>>,  \* 184 escape
    <<102, 97, 115, 99, 105, 110, 97, 116, 101>>,  \* 185 fascinate
    <<101, 120, 99, 101, 101, 100>>,  \* 186 exceed
    <<102, 105, 108, 97, 109, 101, 110, 116>>,  \* 187 filament
    <<101, 121, 101, 103, 108, 97, 115, 115>>,  \* 188 eyeglass
    <<102, 105, 110, 105, 99, 107, 121>>,  \* 189 finicky
    <<101, 121, 101, 116, 111, 111, 116, 104>>,  \* 190 eyetooth
    <<102, 111, 114, 101, 118, 101, 114>>,  \* 191 forever
    <<102, 97, 99, 105, 97, 108>>,  \* 192 facial
    <<102, 111, 114, 116, 105, 116, 117, 100, 101>>,  \* 193 fortitude
    <<102, 97, 108, 108, 111, 117, 116>>,  \* 194 fallout
    <<102, 114, 101, 113, 117, 101, 110, 99, 121>>,  \* 195 frequency
    <<102, 108, 97, 103, 112, 111, 108, 101>>,  \* 196 flagpole
    <<103, 97, 100, 103, 101, 116, 114, 121>>,  \* 197 gadgetry
    <<102, 108, 97, 116, 102, 111, 111, 116>>,  \* 198 flatfoot
    <<71, 97, 108, 118, 101, 115, 116, 111, 110>>,  \* 199 Galveston
    <<102, 108, 121, 116, 114, 97, 112>>,  \* 200 flytrap
    <<103, 101, 116, 97, 119, 97, 121>>,  \* 201 getaway
    <<102, 114, 97, 99, 116, 117, 114, 101>>,  \* 202 fracture
    <<103, 108, 111, 115, 115, 97, 114, 121>>,  \* 203 glossary
    <<102, 114, 97, 109, 101, 119, 111, 114, 107>>,  \* 204 framework
    <<103, 111, 115, 115, 97, 109, 101, 114>>,  \* 205 gossamer
    <<102, 114, 101, 101, 100, 111, 109>>,  \* 206 freedom
    <<103, 114, 97, 100, 117, 97, 116, 101>>,  \* 207 graduate
    <<102, 114, 105, 103, 104, 116, 101, 110>>,  \* 208 frighten
    <<103, 114, 97, 118, 105, 116, 121>>,  \* 209 gravity
    <<103, 97, 122, 101, 108, 108, 101>>,  \* 210 gazelle
    <<103, 117, 105, 116, 97, 114, 105, 115, 116>>,  \* 211 guitarist
    <<71, 101, 105, 103, 101, 114>>,  \* 212 Geiger
    <<104, 97, 109, 98, 117, 114, 103, 101, 114>>,  \* 213 hamburger
    <<103, 108, 105, 116, 116, 101, 114>>,  \* 214 glitter
    <<72, 97, 109, 105, 108, 116, 111, 110>>,  \* 215 Hamilton
    <<103, 108, 117, 99, 111, 115, 101>>,  \* 216 glucose
    <<104, 97, 110, 100, 105, 119, 111, 114, 107>>,  \* 217 handiwork
    <<103, 111, 103, 103, 108, 101, 115>>,  \* 218 goggles
    <<104, 97, 122, 97, 114, 100, 111, 117, 115>>,  \* 219 hazardous
    <<103, 111, 108, 100, 102, 105, 115, 104>>,  \* 220 goldfish
    <<104, 101, 97, 100, 119, 97, 116, 101, 114, 115>>,  \* 221 headwaters
    <<103, 114, 101, 109, 108, 105, 110>>,  \* 222 gremlin
    <<104, 101, 109, 105, 115, 112, 104, 101, 114, 101>>,  \* 223 hemisphere
    <<103, 117, 105, 100, 97, 110, 99, 101>>,  \* 224 guidance
    <<104, 101, 115, 105, 116, 97, 116, 101>>,  \* 225 hesitate
    <<104, 97, 109, 108, 101, 116>>,  \* 226 hamlet
    <<104, 105, 100, 101, 97, 119, 97, 121>>,  \* 227 hideaway
    <<104, 105, 103, 104, 99, 104, 97, 105, 114>>,  \* 228 highchair
    <<104, 111, 108, 105, 110, 101, 115, 115>>,  \* 229 holiness
    <<104, 111, 99, 107, 101, 121>>,  \* 230 hockey
    <<104, 117, 114, 114, 105, 99, 97, 110, 101>>,  \* 231 hurricane
    <<105, 110, 100, 111, 111, 114, 115>>,  \* 232 indoors
    <<104, 121, 100, 114, 97, 117, 108, 105, 99>>,  \* 233 hydraulic
    <<105, 110, 100, 117, 108, 103, 101>>,  \* 234 indulge
    <<105, 109, 112, 97, 114, 116, 105, 97, 108>>,  \* 235 impartial
    <<105, 110, 118, 101, 114, 115, 101>>,  \* 236 inverse
    <<105, 109, 112, 101, 116, 117, 115>>,  \* 237 impetus
    <<105, 110, 118, 111, 108, 118, 101>>,  \* 238 involve
    <<105, 110, 99, 101, 112, 116, 105, 111, 110>>,  \* 239 inception
    <<105, 115, 108, 97, 110, 100>>,  \* 240 island
    <<105, 110, 100, 105, 103, 111>>,  \* 241 indigo
    <<106, 97, 119, 98, 111, 110, 101>>,  \* 242 jawbone
    <<105, 110, 101, 114, 116, 105, 97>>,  \* 243 inertia
    <<107, 101, 121, 98, 111, 97, 114, 100>>,  \* 244 keyboard
    <<105, 110, 102, 97, 110, 99, 121>>,  \* 245 infancy
    <<107, 105, 99, 107, 111, 102, 102>>,  \* 246 kickoff
    <<105, 110, 102, 101, 114, 110, 111>>,  \* 247 inferno
    <<107, 105, 119, 105>>,  \* 248 kiwi
    <<105, 110, 102, 111, 114, 109, 97, 110, 116>>,  \* 249 informant
    <<107, 108, 97, 120, 111, 110>>,  \* 250 klaxon
    <<105, 110, 115, 105, 110, 99, 101, 114, 101>>,  \* 251 insincere
    <<108, 111, 99, 97, 108, 101>>,  \* 252 locale
    <<105, 110, 115, 117, 114, 103, 101, 110, 116>>,  \* 253 insurgent
    <<108, 111, 99, 107, 117, 112>>,  \* 254 lockup
    <<105, 110, 116, 101, 103, 114, 97, 116, 101>>,  \* 255 integrate
    <<109, 101, 114, 105, 116>>,  \* 256 merit
    <<105, 110, 116, 101, 110, 116, 105, 111, 110>>,  \* 257 intention
    <<109, 105, 110, 110, 111, 119>>,  \* 258 minnow
    <<105, 110, 118, 101, 110, 116, 105, 118, 101>>,  \* 259 inventive
    <<109, 105, 115, 101, 114>>,  \* 260 miser
    <<73, 115, 116, 97, 110, 98, 117, 108>>,  \* 261 Istanbul
    <<77, 111, 104, 97, 119, 107>>,  \* 262 Mohawk
    <<74, 97, 109, 97, 105, 99, 97>>,  \* 263 Jamaica
    <<109, 117, 114, 97, 108>>,  \* 264 mural
    <<74, 117, 112, 105, 116, 101, 114>>,  \* 265 Jupiter
    <<109, 117, 115, 105, 99>>,  \* 266 music
    <<108, 101, 112, 114, 111, 115, 121>>,  \* 267 leprosy
    <<110, 101, 99, 107, 108, 97, 99, 101>>,  \* 268 necklace
    <<108, 101, 116, 116, 101, 114, 104, 101, 97, 100>>,  \* 269 letterhead
    <<78, 101, 112, 116, 117, 110, 101>>,  \* 270 Neptune
    <<108, 105, 98, 101, 114, 116, 121>>,  \* 271 liberty
    <<110, 101, 119, 98, 111, 114, 110>>,  \* 272 newborn
    <<109, 97, 114, 105, 116, 105, 109, 101>>,  \* 273 maritime
    <<110, 105, 103, 104, 116, 98, 105, 114, 100>>,  \* 274 nightbird
    <<109, 97, 116, 99, 104, 109, 97, 107, 101, 114>>,  \* 275 matchmaker
    <<79, 97, 107, 108, 97, 110, 100>>,  \* 276 Oakland
    <<109, 97, 118, 101, 114, 105, 99, 107>>,  \* 277 maverick
    <<111, 98, 116, 117, 115, 101>>,  \* 278 obtuse
    <<77, 101, 100, 117, 115, 97>>,  \* 279 Medusa
    <<111, 102, 102, 108, 111, 97, 100>>,  \* 280 offload
    <<109, 101, 103, 97, 116, 111, 110>>,  \* 281 megaton
    <<111, 112, 116, 105, 99>>,  \* 282 optic
    <<109, 105, 99, 114, 111, 115, 99, 111, 112, 101>>,  \* 283 microscope
    <<111, 114, 99, 97>>,  \* 284 orca
    <<109, 105, 99, 114, 111, 119, 97, 118, 101>>,  \* 285 microwave
    <<112, 97, 121, 100, 97, 121>>,  \* 286 payday
    <<109, 105, 100, 115, 117, 109, 109, 101, 114>>,  \* 287 midsummer
    <<112, 101, 97, 99, 104, 121>>,  \* 288 peachy
    <<109, 105, 108, 108, 105, 111, 110, 97, 105, 114, 101>>,  \* 289 millionaire
    <<112, 104, 101, 97, 115, 97, 110, 116>>,  \* 290 pheasant
    <<109, 105, 114, 97, 99, 108, 101>>,  \* 291 miracle
    <<112, 104, 121, 115, 105, 113, 117, 101>>,  \* 292 physique
    <<109, 105, 115, 110, 111, 109, 101, 114>>,  \* 293 misnomer
    <<112, 108, 97, 121, 104, 111, 117, 115, 101>>,  \* 294 playhouse
    <<109, 111, 108, 97, 115, 115, 101, 115>>,  \* 295 molasses
    <<80, 108, 117, 116, 111>>,  \* 296 Pluto
    <<109, 111, 108, 101, 99, 117, 108, 101>>,  \* 297 molecule
    <<112, 114, 101, 99, 108, 117, 100, 101>>,  \* 298 preclude
    <<77, 111, 110, 116, 97, 110, 97>>,  \* 299 Montana
    <<112, 114, 101, 102, 101, 114>>,  \* 300 prefer
    <<109, 111, 110, 117, 109, 101, 110, 116>>,  \* 301 monument
    <<112, 114, 101, 115, 104, 114, 117, 110, 107>>,  \* 302 preshrunk
    <<109, 111, 115, 113, 117, 105, 116, 111>>,  \* 303 mosquito
    <<112, 114, 105, 110, 116, 101, 114>>,  \* 304 printer
    <<110, 97, 114, 114, 97, 116, 105, 118, 101>>,  \* 305 narrative
    <<112, 114, 111, 119, 108, 101, 114>>,  \* 306 prowler
    <<110, 101, 98, 117, 108, 97>>,  \* 307 nebula
    <<112, 117, 112, 105, 108>>,  \* 308 pupil
    <<110, 101, 119, 115, 108, 101, 116, 116, 101, 114>>,  \* 309 newsletter
    <<112, 117, 112, 112, 121>>,  \* 310 puppy
    <<78, 111, 114, 119, 101, 103, 105, 97, 110>>,  \* 311 Norwegian
    <<112, 121, 116, 104, 111, 110>>,  \* 312 python
    <<79, 99, 116, 111, 98, 101, 114>>,  \* 313 October
    <<113, 117, 97, 100, 114, 97, 110, 116>>,  \* 314 quadrant
    <<79, 104, 105, 111>>,  \* 315 Ohio
    <<113, 117, 105, 118, 101, 114>>,  \* 316 quiver
    <<111, 110, 108, 111, 111, 107, 101, 114>>,  \* 317 onlooker
    <<113, 117, 111, 116, 97>>,  \* 318 quota
    <<111, 112, 117, 108, 101, 110, 116>>,  \* 319 opulent
    <<114, 97, 103, 116, 105, 109, 101>>,  \* 320 ragtime
    <<79, 114, 108, 97, 110, 100, 111>>,  \* 321 Orlando
    <<114, 97, 116, 99, 104, 101, 116>>,  \* 322 ratchet
    <<111, 117, 116, 102, 105, 101, 108, 100, 101, 114>>,  \* 323 outfielder
    <<114, 101, 98, 105, 114, 116, 104>>,  \* 324 rebirth
    <<80, 97, 99, 105, 102, 105, 99>>,  \* 325 Pacific
    <<114, 101, 102, 111, 114, 109>>,  \* 326 reform
    <<112, 97, 110, 100, 101, 109, 105, 99>>,  \* 327 pandemic
    <<114, 101, 103, 97, 105, 110>>,  \* 328 regain
    <<80, 97, 110, 100, 111, 114, 97>>,  \* 329 Pandora
    <<114, 101, 105, 110, 100, 101, 101, 114>>,  \* 330 reindeer
    <<112, 97, 112, 101, 114, 119, 101, 105, 103, 104, 116>>,  \* 331 paperweight
    <<114, 101, 109, 97, 116, 99, 104>>,  \* 332 rematch
    <<112, 97, 114, 97, 103, 111, 110>>,  \* 333 paragon
    <<114, 101, 112, 97, 121>>,  \* 334 repay
    <<112, 97, 114, 97, 103, 114, 97, 112, 104>>,  \* 335 paragraph
    <<114, 101, 116, 111, 117, 99, 104>>,  \* 336 retouch
    <<112, 97, 114, 97, 109, 111, 117, 110, 116>>,  \* 337 paramount
    <<114, 101, 118, 101, 110, 103, 101>>,  \* 338 revenge
    <<112, 97, 115, 115, 101, 110, 103, 101, 114>>,  \* 339 passenger
    <<114, 101, 119, 97, 114, 100>>,  \* 340 reward
    <<112, 101, 100, 105, 103, 114, 101, 101>>,  \* 341 pedigree
    <<114, 104, 121, 116, 104, 109>>,  \* 342 rhythm
    <<80, 101, 103, 97, 115, 117, 115>>,  \* 343 Pegasus
    <<114, 105, 98, 99, 97, 103, 101>>,  \* 344 ribcage
    <<112, 101, 110, 101, 116, 114, 97, 116, 101>>,  \* 345 penetrate
    <<114, 105, 110, 103, 98, 111, 108, 116>>,  \* 346 ringbolt
    <<112, 101, 114, 99, 101, 112, 116, 105, 118, 101>>,  \* 347 perceptive
    <<114, 111, 98, 117, 115, 116>>,  \* 348 robust
    <<112, 101, 114, 102, 111, 114, 109, 97, 110, 99, 101>>,  \* 349 performance
    <<114, 111, 99, 107, 101, 114>>,  \* 350 rocker
    <<112, 104, 97, 114, 109, 97, 99, 121>>,  \* 351 pharmacy
    <<114, 117, 102, 102, 108, 101, 100>>,  \* 352 ruffled
    <<112, 104, 111, 110, 101, 116, 105, 99>>,  \* 353 phonetic
    <<115, 97, 105, 108, 98, 111, 97, 116>>,  \* 354 sailboat
    <<112, 104, 111, 116, 111, 103, 114, 97, 112, 104>>,  \* 355 photograph
    <<115, 97, 119, 100, 117, 115, 116>>,  \* 356 sawdust
    <<112, 105, 111, 110, 101, 101, 114>>,  \* 357 pioneer
    <<115, 99, 97, 108, 108, 105, 111, 110>>,  \* 358 scallion
    <<112, 111, 99, 107, 101, 116, 102, 117, 108>>,  \* 359 pocketful
    <<115, 99, 101, 110, 105, 99>>,  \* 360 scenic
    <<112, 111, 108, 105, 116, 101, 110, 101, 115, 115>>,  \* 361 politeness
    <<115, 99, 111, 114, 101, 99, 97, 114, 100>>,  \* 362 scorecard
    <<112, 111, 115, 105, 116, 105, 118, 101>>,  \* 363 positive
    <<83, 99, 111, 116, 108, 97, 110, 100>>,  \* 364 Scotland
    <<112, 111, 116, 97, 116, 111>>,  \* 365 potato
    <<115, 101, 97, 98, 105, 114, 100>>,  \* 366 seabird
    <<112, 114, 111, 99, 101, 115, 115, 111, 114>>,  \* 367 processor
    <<115, 101, 108, 101, 99, 116>>,  \* 368 select
    <<112, 114, 111, 118, 105, 110, 99, 105, 97, 108>>,  \* 369 provincial
    <<115, 101, 110, 116, 101, 110, 99, 101>>,  \* 370 sentence
    <<112, 114, 111, 120, 105, 109, 97, 116, 101>>,  \* 371 proximate
    <<115, 104, 97, 100, 111, 119>>,  \* 372 shadow
    <<112, 117, 98, 101, 114, 116, 121>>,  \* 373 puberty
    <<115, 104, 97, 109, 114, 111, 99, 107>>,  \* 374 shamrock
    <<112, 117, 98, 108, 105, 115, 104, 101, 114>>,  \* 375 publisher
    <<115, 104, 111, 119, 103, 105, 114, 108>>,  \* 376 showgirl
    <<112, 121, 114, 97, 109, 105, 100>>,  \* 377 pyramid
    <<115, 107, 117, 108, 108, 99, 97, 112>>,  \* 378 skullcap
    <<113, 117, 97, 110, 116, 105, 116, 121>>,  \* 379 quantity
    <<115, 107, 121, 100, 105, 118, 101>>,  \* 380 skydive
    <<114, 97, 99, 107, 101, 116, 101, 101, 114>>,  \* 381 racketeer
    <<115, 108, 105, 110, 103, 115, 104, 111, 116>>,  \* 382 slingshot
    <<114, 101, 98, 101, 108, 108, 105, 111, 110>>,  \* 383 rebellion
    <<115, 108, 111, 119, 100, 111, 119, 110>>,  \* 384 slowdown
    <<114, 101, 99, 105, 112, 101>>,  \* 385 recipe
    <<115, 110, 97, 112, 108, 105, 110, 101>>,  \* 386 snapline
    <<114, 101, 99, 111, 118, 101, 114>>,  \* 387 recover
    <<115, 110, 97, 112, 115, 104, 111, 116>>,  \* 388 snapshot
    <<114, 101, 112, 101, 108, 108, 101, 110, 116>>,  \* 389 repellent
    <<115, 110, 111, 119, 99, 97, 112>>,  \* 390 snowcap
    <<114, 101, 112, 108, 105, 99, 97>>,  \* 391 replica
    <<115, 110, 111, 119, 115, 108, 105, 100, 101>>,  \* 392 snowslide
    <<114, 101, 112, 114, 111, 100, 117, 99, 101>>,  \* 393 reproduce
    <<115, 111, 108, 111>>,  \* 394 solo
    <<114, 101, 115, 105, 115, 116, 111, 114>>,  \* 395 resistor
    <<115, 111, 117, 116, 104, 119, 97, 114, 100>>,  \* 396 southward
    <<114, 101, 115, 112, 111, 110, 115, 105, 118, 101>>,  \* 397 responsive
    <<115, 111, 121, 98, 101, 97, 110>>,  \* 398 soybean
    <<114, 101, 116, 114, 97, 99, 116, 105, 111, 110>>,  \* 399 retraction
    <<115, 112, 97, 110, 105, 101, 108>>,  \* 400 spaniel
    <<114, 101, 116, 114, 105, 101, 118, 97, 108>>,  \* 401 retrieval
    <<115, 112, 101, 97, 114, 104, 101, 97, 100>>,  \* 402 spearhead
    <<114, 101, 116, 114, 111, 115, 112, 101, 99, 116>>,  \* 403 retrospect
    <<115, 112, 101, 108, 108, 98, 105, 110, 100>>,  \* 404 spellbind
    <<114, 101, 118, 101, 110, 117, 101>>,  \* 405 revenue
    <<115, 112, 104, 101, 114, 111, 105, 100>>,  \* 406 spheroid
    <<114, 101, 118, 105, 118, 97, 108>>,  \* 407 revival
    <<115, 112, 105, 103, 111, 116>>,  \* 408 spigot
    <<114, 101, 118, 111, 108, 118, 101, 114>>,  \* 409 revolver
    <<115, 112, 105, 110, 100, 108, 101>>,  \* 410 spindle
    <<115, 97, 110, 100, 97, 108, 119, 111, 111, 100>>,  \* 411 sandalwood
    <<115, 112, 121, 103, 108, 97, 115, 115>>,  \* 412 spyglass
    <<115, 97, 114, 100, 111, 110, 105, 99>>,  \* 413 sardonic
    <<115, 116, 97, 103, 101, 104, 97, 110, 100>>,  \* 414 stagehand
    <<83, 97, 116, 117, 114, 100, 97, 121>>,  \* 415 Saturday
    <<115, 116, 97, 103, 110, 97, 116, 101>>,  \* 416 stagnate
    <<115, 97, 118, 97, 103, 101, 114, 121>>,  \* 417 savagery
    <<115, 116, 97, 105, 114, 119, 97, 121>>,  \* 418 stairway
    <<115, 99, 97, 118, 101, 110, 103, 101, 114>>,  \* 419 scavenger
    <<115, 116, 97, 110, 100, 97, 114, 100>>,  \* 420 standard
    <<115, 101, 110, 115, 97, 116, 105, 111, 110>>,  \* 421 sensation
    <<115, 116, 97, 112, 108, 101, 114>>,  \* 422 stapler
    <<115, 111, 99, 105, 97, 98, 108, 101>>,  \* 423 sociable
    <<115, 116, 101, 97, 109, 115, 104, 105, 112>>,  \* 424 steamship
    <<115, 111, 117, 118, 101, 110, 105, 114>>,  \* 425 souvenir
    <<115, 116, 101, 114, 108, 105, 110, 103>>,  \* 426 sterling
    <<115, 112, 101, 99, 105, 97, 108, 105, 115, 116>>,  \* 427 specialist
    <<115, 116, 111, 99, 107, 109, 97, 110>>,  \* 428 stockman
    <<115, 112, 101, 99, 117, 108, 97, 116, 101>>,  \* 429 speculate
    <<115, 116, 111, 112, 119, 97, 116, 99, 104>>,  \* 430 stopwatch
    <<115, 116, 101, 116, 104, 111, 115, 99, 111, 112, 101>>,  \* 431 stethoscope
    <<115, 116, 111, 114, 109, 121>>,  \* 432 stormy
    <<115, 116, 117, 112, 101, 110, 100, 111, 117, 115>>,  \* 433 stupendous
    <<115, 117, 103, 97, 114>>,  \* 434 sugar
    <<115, 117, 112, 112, 111, 114, 116, 105, 118, 101>>,  \* 435 supportive
    <<115, 117, 114, 109, 111, 117, 110, 116>>,  \* 436 surmount
    <<115, 117, 114, 114, 101, 110, 100, 101, 114>>,  \* 437 surrender
    <<115, 117, 115, 112, 101, 110, 115, 101>>,  \* 438 suspense
    <<115, 117, 115, 112, 105, 99, 105, 111, 117, 115>>,  \* 439 suspicious
    <<115, 119, 101, 97, 116, 98, 97, 110, 100>>,  \* 440 sweatband
    <<115, 121, 109, 112, 97, 116, 104, 121>>,  \* 441 sympathy
    <<115, 119, 101, 108, 116, 101, 114>>,  \* 442 swelter
    <<116, 97, 109, 98, 111, 117, 114, 105, 110, 101>>,  \* 443 tambourine
    <<116, 97, 99, 116, 105, 99, 115>>,  \* 444 tactics
    <<116, 101, 108, 101, 112, 104, 111, 110, 101>>,  \* 445 telephone
    <<116, 97, 108, 111, 110>>,  \* 446 talon
    <<116, 104, 101, 114, 97, 112, 105, 115, 116>>,  \* 447 therapist
    <<116, 97, 112, 101, 119, 111, 114, 109>>,  \* 448 tapeworm
    <<116, 111, 98, 97, 99, 99, 111>>,  \* 449 tobacco
    <<116, 101, 109, 112, 101, 115, 116>>,  \* 450 tempest
    <<116, 111, 108, 101, 114, 97, 110, 99, 101>>,  \* 451 tolerance
    <<116, 105, 103, 101, 114>>,  \* 452 tiger
    <<116, 111, 109, 111, 114, 114, 111, 119>>,  \* 453 tomorrow
    <<116, 105, 115, 115, 117, 101>>,  \* 454 tissue
    <<116, 111, 114, 112, 101, 100, 111>>,  \* 455 torpedo
    <<116, 111, 110, 105, 99>>,  \* 456 tonic
    <<116, 114, 97, 100, 105, 116, 105, 111, 110>>,  \* 457 tradition
    <<116, 111, 112, 109, 111, 115, 116>>,  \* 458 topmost
    <<116, 114, 97, 118, 101, 115, 116, 121>>,  \* 459 travesty
    <<116, 114, 97, 99, 107, 101, 114>>,  \* 460 tracker
    <<116, 114, 111, 109, 98, 111, 110, 105, 115, 116>>,  \* 461 trombonist
    <<116, 114, 97, 110, 115, 105, 116>>,  \* 462 transit
    <<116, 114, 117, 110, 99, 97, 116, 101, 100>>,  \* 463 truncated
    <<116, 114, 97, 117, 109, 97>>,  \* 464 trauma
    <<116, 121, 112, 101, 119, 114, 105, 116, 101, 114>>,  \* 465 typewriter
    <<116, 114, 101, 97, 100, 109, 105, 108, 108>>,  \* 466 treadmill
    <<117, 108, 116, 105, 109, 97, 116, 101>>,  \* 467 ultimate
    <<84, 114, 111, 106, 97, 110>>,  \* 468 Trojan
    <<117, 110, 100, 97, 117, 110, 116, 101, 100>>,  \* 469 undaunted
    <<116, 114, 111, 117, 98, 108, 101>>,  \* 470 trouble
    <<117, 110, 100, 101, 114, 102, 111, 111, 116>>,  \* 471 underfoot
    <<116, 117, 109, 111, 114>>,  \* 472 tumor
    <<117, 110, 105, 99, 111, 114, 110>>,  \* 473 unicorn
    <<116, 117, 110, 110, 101, 108>>,  \* 474 tunnel
    <<117, 110, 105, 102, 121>>,  \* 475 unify
    <<116, 121, 99, 111, 111, 110>>,  \* 476 tycoon
    <<117, 110, 105, 118, 101, 114, 115, 101>>,  \* 477 universe
    <<117, 110, 99, 117, 116>>,  \* 478 uncut
    <<117, 110, 114, 97, 118, 101, 108>>,  \* 479 unravel
    <<117, 110, 101, 97, 114, 116, 104>>,  \* 480 unearth
    <<117, 112, 99, 111, 109, 105, 110, 103>>,  \* 481 upcoming
    <<117, 110, 119, 105, 110, 100>>,  \* 482 unwind
    <<118, 97, 99, 97, 110, 99, 121>>,  \* 483 vacancy
    <<117, 112, 114, 111, 111, 116>>,  \* 484 uproot
    <<118, 97, 103, 97, 98, 111, 110, 100>>,  \* 485 vagabond
    <<117, 112, 115, 101, 116>>,  \* 486 upset
    <<118, 101, 114, 116, 105, 103, 111>>,  \* 487 vertigo
    <<117, 112, 115, 104, 111, 116>>,  \* 488 upshot
    <<86, 105, 114, 103, 105, 110, 105, 97>>,  \* 489 Virginia
    <<118, 97, 112, 111, 114>>,  \* 490 vapor
    <<118, 105, 115, 105, 116, 111, 114>>,  \* 491 visitor
    <<118, 105, 108, 108, 97, 103, 101>>,  \* 492 village
    <<118, 111, 99, 97, 108, 105, 115, 116>>,  \* 493 vocalist
    <<118, 105, 114, 117, 115>>,  \* 494 virus
    <<118, 111, 121, 97, 103, 101, 114>>,  \* 495 voyager
    <<86, 117, 108, 99, 97, 110>>,  \* 496 Vulcan
    <<119, 97, 114, 114, 97, 110, 116, 121>>,  \* 497 warranty
    <<119, 97, 102, 102, 108, 101>>,  \* 498 waffle
    <<87, 97, 116, 101, 114, 108, 111, 111>>,  \* 499 Waterloo
    <<119, 97, 108, 108, 101, 116>>,  \* 500 wallet
    <<119, 104, 105, 109, 115, 105, 99, 97, 108>>,  \* 501 whimsical
    <<119, 97, 116, 99, 104, 119, 111, 114, 100>>,  \* 502 watchword
    <<87, 105, 99, 104, 105, 116, 97>>,  \* 503 Wichita
    <<119, 97, 121, 115, 105, 100, 101>>,  \* 504 wayside
    <<87, 105, 108, 109, 105, 110, 103, 116, 111, 110>>,  \* 505 Wilmington
    <<119, 105, 108, 108, 111, 119>>,  \* 506 willow
    <<87, 121, 111, 109, 105, 110, 103>>,  \* 507 Wyoming
    <<119, 111, 111, 100, 108, 97, 114, 107>>,  \* 508 woodlark
    <<121, 101, 115, 116, 101, 114, 121, 101, 97, 114>>,  \* 509 yesteryear
    <<90, 117, 108, 117>>,  \* 510 Zulu
    <<89, 117, 99, 97, 116, 97, 110>>  \* 511 Yucatan
>>

----------------------------------------------------------------------------
(* Go library functions used by the codec, on ASCII strings.               *)

\* unicode.IsSpace on ASCII: '\t', '\n', '\v', '\f', '\r', ' '.
IsSpace(c) == c \in {9, 10, 11, 12, 13, 32}

\* strings.TrimSpace: from the first to the last character that is no space.
TrimSpace(s) ==
    IF \A i \in 1..Len(s) : IsSpace(s[i]) THEN <<>>
    ELSE LET lo == CHOOSE i \in 1..Len(s) :
                       ~IsSpace(s[i]) /\ \A j \in 1..(i - 1) : IsSpace(s[j])
             hi == CHOOSE i \in 1..Len(s) :
                       ~IsSpace(s[i]) /\ \A j \in (i + 1)..Len(s) : IsSpace(s[j])
         IN  SubSeq(s, lo, hi)

\* strings.ToLower
ToLower(s) == [i \in 1..Len(s) |-> IF s[i] \in 65..90 THEN s[i] + 32 ELSE s[i]]

\* strings.Split(s, " "): the pieces of s from position p on.
RECURSIVE SplitFrom(_, _)
SplitFrom(s, p) ==
    LET e == CHOOSE i \in p..(Len(s) + 1) :
                 /\ i = Len(s) + 1 \/ s[i] = 32
                 /\ \A j \in p..(i - 1) : s[j] # 32
    IN  IF e = Len(s) + 1 THEN <<SubSeq(s, p, Len(s))>>
        ELSE <<SubSeq(s, p, e - 1)>> \o SplitFrom(s, e + 1)

SplitSpace(s) == SplitFrom(s, 1)

\* encoding/hex: fromHexChar
IsHexChar(c) == c \in 48..57 \/ c \in 97..102 \/ c \in 65..70
FromHexChar(c) ==
    IF c \in 48..57 THEN c - 48
    ELSE IF c \in 97..102 THEN c - 97 + 10
    ELSE c - 65 + 10

\* encoding/hex: DecodeString.  Characters are examined in order; the first
\* invalid one is an InvalidByteError, an odd length without one is ErrLength.
HexDecodeString(s) ==
    LET bad == {i \in 1..Len(s) : ~IsHexChar(s[i])}
    IN  IF bad # {} THEN [bytes |-> <<>>, err |-> "hex.InvalidByteError"]
        ELSE IF Len(s) % 2 = 1 THEN [bytes |-> <<>>, err |-> "hex.ErrLength"]
        ELSE [bytes |-> [k \in 1..(Len(s) \div 2) |->
                            FromHexChar(s[2 * k - 1]) * 16 + FromHexChar(s[2 * k])],
              err |-> "nil"]

----------------------------------------------------------------------------
(* The word table's reverse lookup, built by init().                       *)

\* The key of each entry: strings.ToLower(strings.TrimSpace(word)).
NormalizedWords(list) == [i \in 1..Len(list) |-> ToLower(TrimSpace(list[i]))]

\* wordIndexes[key] = uint16(i) for each entry in the table's order: a later
\* entry with the same key overwrites an earlier one.
IndexByKey(keys) ==
    [k \in {keys[i] : i \in 1..Len(keys)} |->
        (CHOOSE i \in 1..Len(keys) :
            /\ keys[i] = k
            /\ \A j \in (i + 1)..Len(keys) : keys[j] # k) - 1]

wordIndexes == IndexByKey(NormalizedWords(wordList))

\* b, ok := wordIndexes[key]
MapLookup(m, key) ==
    IF key \in DOMAIN m THEN [b |-> m[key], ok |-> TRUE] ELSE [b |-> 0, ok |-> FALSE]

----------------------------------------------------------------------------
(* The codec.                                                              *)

MinSeedBytes == 16
MaxSeedBytes == 64

\* checksumByte: the first byte of SHA256(SHA256(data)).
checksumByte(data) == Sum256(Sum256(data))[1]

\* A mutation of ByteToMnemonic: the position's parity is ignored.
ByteToMnemonicNoParity(b, index) == wordList[b * 2 + 1]

\* ByteToMnemonic: entry 2*b of the table, the next one at an odd index.
ByteToMnemonic(b, index) ==
    LET bb == b * 2
    IN  wordList[(IF index % 2 # 0 THEN bb + 1 ELSE bb) + 1]

\* The loop of EncodeMnemonic from byte i (0-based) on; buf is the buffer.
RECURSIVE EncodeLoop(_, _, _)
EncodeLoop(seed, i, buf) ==
    IF i >= Len(seed) \/ Len(buf) < 0 THEN buf
    ELSE EncodeLoop(seed, i + 1,
                    buf \o (IF i # 0 THEN <<32>> ELSE <<>>)
                        \o ByteToMnemonic(seed[i + 1], i))

\* EncodeMnemonic: the words of the bytes, then a space and the checksum's
\* word, written whether or not anything precedes it.
EncodeMnemonic(seed) ==
    EncodeLoop(seed, 0, <<>>) \o <<32>> \o ByteToMnemonic(checksumByte(seed), Len(seed))

NotInList == [bytes |-> <<>>, err |-> "word is not in the PGP word list"]
NotAtPosition == [bytes |-> <<>>, err |-> "word is not valid at position"]

\* A mutation of the loop body of DecodeMnemonics: the parity test is gone.
DecodeWordNoParity(decoded, r) ==
    IF ~r.ok THEN NotInList
    ELSE [bytes |-> Append(decoded, r.b \div 2), err |-> "nil"]

\* The loop body of DecodeMnemonics for a word found (r.ok) or not in
\* wordIndexes, with idx = Len(decoded): the error, or decoded with the
\* word's byte stored at idx.
DecodeWord(decoded, r) ==
    IF ~r.ok THEN NotInList
    ELSE IF r.b % 2 # Len(decoded) % 2 THEN NotAtPosition
    ELSE [bytes |-> Append(decoded, r.b \div 2), err |-> "nil"]

\* The loop of DecodeMnemonics from word k on; d.bytes is decoded[:idx].
RECURSIVE DecodeLoop(_, _, _)
DecodeLoop(words, k, d) ==
    IF d.err # "nil" \/ k > Len(words) THEN d
    ELSE IF TrimSpace(words[k]) = <<>> THEN DecodeLoop(words, k + 1, d)
    ELSE DecodeLoop(words, k + 1,
                    DecodeWord(d.bytes,
                               MapLookup(wordIndexes, ToLower(TrimSpace(words[k])))))

\* DecodeMnemonics: the error of the first bad word, or decoded[:idx].
DecodeMnemonics(words) == DecodeLoop(words, 1, [bytes |-> <<>>, err |-> "nil"])

\* case len(words) == 1 of DecodeUserInput, h being hex.DecodeString's result.
HexCase(h) ==
    IF h.err # "nil" THEN [seed |-> <<>>, err |-> h.err]
    ELSE [seed |-> h.bytes, err |-> "nil"]

\* case len(words) > 1 of DecodeUserInput, d being DecodeMnemonics' result.
MnemonicCase(d) ==
    IF d.err # "nil" THEN [seed |-> <<>>, err |-> d.err]
    ELSE IF Len(d.bytes) < 2 THEN [seed |-> <<>>, err |-> "nil"]
    ELSE IF checksumByte(SubSeq(d.bytes, 1, Len(d.bytes) - 1)) # d.bytes[Len(d.bytes)]
    THEN [seed |-> <<>>, err |-> "checksum mismatch"]
    ELSE [seed |-> SubSeq(d.bytes, 1, Len(d.bytes) - 1), err |-> "nil"]

\* The switch of DecodeUserInput: the seed it leaves in `seed`, or the error
\* it returns with.
DecodeSwitch(words) ==
    IF Len(words) = 1 THEN HexCase(HexDecodeString(words[1]))
    ELSE IF Len(words) > 1 THEN MnemonicCase(DecodeMnemonics(words))
    ELSE [seed |-> <<>>, err |-> "nil"]

\* A mutation of the length test: it is missing.
SeedLenGateMissing(r) == r

\* A mutation of the length test: only the lower bound is tested.
SeedLenGateNoMax(r) ==
    IF r.err # "nil" THEN r
    ELSE IF Len(r.seed) < MinSeedBytes
    THEN [seed |-> <<>>, err |-> "hdkeychain.ErrInvalidSeedLen"]
    ELSE r

\* The end of DecodeUserInput, reached when the switch returned no error:
\* the length test on seed.
SeedLenGate(r) ==
    IF r.err # "nil" THEN r
    ELSE IF Len(r.seed) < MinSeedBytes \/ Len(r.seed) > MaxSeedBytes
    THEN [seed |-> <<>>, err |-> "hdkeychain.ErrInvalidSeedLen"]
    ELSE r

\* DecodeUserInput: every error is of kind errors.Encoding; err names its cause.
DecodeUserInput(input) == SeedLenGate(DecodeSwitch(SplitSpace(TrimSpace(input))))

----------------------------------------------------------------------------
(* The codec's scenarios: a seed is encoded (or written in hexadecimal),   *)
(* the phrase may lose or repeat one word, and the text is decoded.        *)

NumStarts == 8

\* The seeds: runs of consecutive byte values.  Run j starts at
\* 64*(j mod 4) + (j div 4), so that the first eight runs of 64 bytes put
\* every byte value at an even and at an odd position.
SeedOf(len, j) == [i \in 1..len |-> (64 * (j % 4) + (j \div 4) + i - 1) % 256]

SeedLens == {0, 1, 2, 15, 16, 17, 64, 65}

PlainSeeds == {SeedOf(len, j) : len \in SeedLens, j \in 0..(NumStarts - 1)}

\* Seeds whose last byte is the checksum of the bytes before it.
SelfChecksummedSeeds ==
    {Append(s, checksumByte(s)) : s \in {SeedOf(1, 0), SeedOf(16, 0), SeedOf(16, 1)}}

Seeds == PlainSeeds \cup SelfChecksummedSeeds

\* Texts a user may type that no encoder produced.
RawInputs == {
        <<100, 101, 97, 100, 98, 101, 101, 102>>,  \* "deadbeef"
        <<68, 69, 65, 68, 66, 69, 69, 70>>,  \* "DEADBEEF"
        <<32, 100, 101, 97, 100, 98, 101, 101, 102, 32>>,  \* " deadbeef "
        <<>>,  \* ""
        <<32, 32, 32>>,  \* "   "
        <<97, 98, 99>>,  \* "abc"
        <<122, 122>>,  \* "zz"
        <<48, 103, 49>>,  \* "0g1"
        <<100, 101, 97, 100, 32, 98, 101, 101, 102>>,  \* "dead beef"
        <<97, 97, 114, 100, 118, 97, 114, 107>>,  \* "aardvark"
        <<97, 97, 114, 100, 118, 97, 114, 107, 32, 32, 97, 100, 114, 111, 105, 116, 110, 101, 115, 115>>,  \* "aardvark  adroitness"
        <<97, 97, 114, 100, 118, 97, 114, 107, 32, 9, 32, 97, 100, 114, 111, 105, 116, 110, 101, 115, 115>>,  \* "aardvark \t adroitness"
        <<65, 97, 114, 100, 118, 97, 114, 107, 32, 65, 68, 82, 79, 73, 84, 78, 69, 83, 83>>,  \* "Aardvark ADROITNESS"
        <<97, 100, 114, 111, 105, 116, 110, 101, 115, 115, 32, 97, 97, 114, 100, 118, 97, 114, 107>>,  \* "adroitness aardvark"
        <<97, 97, 114, 100, 118, 97, 114, 107, 32, 120, 121, 122, 122, 121>>  \* "aardvark xyzzy"
    }

DeadBeef == <<100, 101, 97, 100, 98, 101, 101, 102>>

\* The hexadecimal spelling of bytes, in lower or upper case digits.
HexDigit(n, upper) ==
    IF n < 10 THEN 48 + n ELSE IF upper THEN 65 + n - 10 ELSE 97 + n - 10
ToHex(bytes, upper) ==
    [i \in 1..(2 * Len(bytes)) |->
        LET b == bytes[(i + 1) \div 2]
        IN  HexDigit(IF i % 2 = 1 THEN b \div 16 ELSE b % 16, upper)]

\* Words joined by single spaces.
RECURSIVE JoinWords(_)
JoinWords(ws) ==
    IF Len(ws) = 0 THEN <<>>
    ELSE IF Len(ws) = 1 THEN ws[1]
    ELSE ws[1] \o <<32>> \o JoinWords(Tail(ws))

PhraseWords(phrase) == SplitSpace(TrimSpace(phrase))
RemoveAt(ws, i) == SubSeq(ws, 1, i - 1) \o SubSeq(ws, i + 1, Len(ws))
DuplicateAt(ws, i) == SubSeq(ws, 1, i) \o SubSeq(ws, i, Len(ws))

NoResult == [seed |-> <<>>, err |-> "not called"]

CodecStart ==
    /\ cmut = 0
    /\ cout = NoResult
    /\ \/ /\ cpc = "start"
          /\ cseed \in Seeds
          /\ ckind = "none"
          /\ cinput = <<>>
       \/ /\ cpc = "phrase"
          /\ cseed = <<>>
          /\ ckind = "raw"
          /\ cinput \in RawInputs

Encode ==
    /\ cpc = "start"
    /\ cinput' = EncodeMnemonic(cseed)
    /\ ckind' = "encoded"
    /\ cpc' = "phrase"
    /\ UNCHANGED <<cseed, cmut, cout>>
    /\ UNCHANGED <<vaultVars, batchVars>>

WriteHex(upper) ==
    /\ cpc = "start"
    /\ cinput' = ToHex(cseed, upper)
    /\ ckind' = "hex"
    /\ cpc' = "phrase"
    /\ UNCHANGED <<cseed, cmut, cout>>
    /\ UNCHANGED <<vaultVars, batchVars>>

\* One word of the encoded phrase is removed.
RemoveWord ==
    /\ cpc = "phrase"
    /\ ckind = "encoded"
    /\ LET ws == PhraseWords(cinput)
       IN  \E i \in 1..Len(ws) :
               /\ cinput' = JoinWords(RemoveAt(ws, i))
               /\ cmut' = i
    /\ ckind' = "removed"
    /\ UNCHANGED <<cpc, cseed, cout>>
    /\ UNCHANGED <<vaultVars, batchVars>>

\* One word of the encoded phrase is repeated in place.
DuplicateWord ==
    /\ cpc = "phrase"
    /\ ckind = "encoded"
    /\ LET ws == PhraseWords(cinput)
       IN  \E i \in 1..Len(ws) :
               /\ cinput' = JoinWords(DuplicateAt(ws, i))
               /\ cmut' = i
    /\ ckind' = "duplicated"
    /\ UNCHANGED <<cpc, cseed, cout>>
    /\ UNCHANGED <<vaultVars, batchVars>>

Decode ==
    /\ cpc = "phrase"
    /\ cout' = DecodeUserInput(cinput)
    /\ cpc' = "decoded"
    /\ UNCHANGED <<cseed, ckind, cmut, cinput>>
    /\ UNCHANGED <<vaultVars, batchVars>>

NextCodec ==
    \/ Encode
    \/ \E upper \in BOOLEAN : WriteHex(upper)
    \/ RemoveWord
    \/ DuplicateWord
    \/ Decode

----------------------------------------------------------------------------
(* The seed vault.  scrypt and secretbox are idealised: a derived key is   *)
(* the term of its inputs, a sealed box is the term of key, nonce and      *)
(* message, and a box opens under exactly the key and nonce that sealed it.*)

ScryptN == 32768
ScryptR == 8
ScryptP == 1
KeyLen == 32

RECURSIVE IsPowerOfTwo(_)
IsPowerOfTwo(n) == n = 1 \/ (n > 1 /\ n % 2 = 0 /\ IsPowerOfTwo(n \div 2))

\* scrypt.Key(password, salt, N, r, p, keyLen)
ScryptKey(password, salt, N, r, p, keyLen) ==
    IF N <= 1 \/ ~IsPowerOfTwo(N)
    THEN [hash |-> <<>>, err |-> "scrypt: N must be > 1 and a power of 2"]
    ELSE IF r * p >= 2 ^ 30
    THEN [hash |-> <<>>, err |-> "scrypt: parameters are too large"]
    ELSE [hash |-> [scrypt |-> <<password, salt, N, r, p>>, len |-> keyLen],
          err |-> "nil"]

\* nacl.Load(EncodeHex(hash)): the hash, spelled in hexadecimal and read
\* back, is the key when it has 32 bytes.
NaclLoad(hash) ==
    IF hash.len # 32 THEN [key |-> <<>>, err |-> "nacl: incorrect key length"]
    ELSE [key |-> hash, err |-> "nil"]

\* naclLoadFromPass: scrypt without salt, N = 1 << 15, r = 8, p = 1, 32 bytes.
naclLoadFromPass(pass) ==
    LET h == ScryptKey(pass, <<>>, ScryptN, ScryptR, ScryptP, KeyLen)
    IN  IF h.err # "nil" THEN [key |-> <<>>, err |-> h.err]
        ELSE NaclLoad(h.hash)

\* secretbox.EasySeal with the nonce nacl.NewNonce drew: the nonce, then the
\* sealed message.
EasySeal(msg, key, nonce) ==
    [nonce |-> nonce, sealed |-> [key |-> key, nonce |-> nonce, msg |-> msg]]

\* secretbox.EasyOpen
EasyOpen(box, key) ==
    IF box.sealed.key = key /\ box.sealed.nonce = box.nonce
    THEN [msg |-> box.sealed.msg, err |-> "nil"]
    ELSE [msg |-> <<>>, err |-> "secretbox: cannot open box"]

\* encryptWalletSeed; []byte(seed) keeps the string's bytes.
encryptWalletSeed(pass, seed, nonce) ==
    LET k == naclLoadFromPass(pass)
    IN  IF k.err # "nil" THEN [blob |-> <<>>, err |-> k.err]
        ELSE [blob |-> EasySeal(seed, k.key, nonce), err |-> "nil"]

\* A mutation of decryptWalletSeed: the error of EasyOpen is returned as is.
decryptWalletSeedRawError(pass, encryptedSeed) ==
    LET k == naclLoadFromPass(pass)
    IN  IF k.err # "nil" THEN [seed |-> <<>>, err |-> k.err]
        ELSE LET o == EasyOpen(encryptedSeed, k.key)
             IN  IF o.err # "nil" THEN [seed |-> <<>>, err |-> o.err]
                 ELSE [seed |-> o.msg, err |-> "nil"]

\* decryptWalletSeed; string(decryptedSeed) keeps the bytes.
decryptWalletSeed(pass, encryptedSeed) ==
    LET k == naclLoadFromPass(pass)
    IN  IF k.err # "nil" THEN [seed |-> <<>>, err |-> k.err]
        ELSE LET o == EasyOpen(encryptedSeed, k.key)
             IN  IF o.err # "nil" THEN [seed |-> <<>>, err |-> "ErrInvalidPassphrase"]
                 ELSE [seed |-> o.msg, err |-> "nil"]

----------------------------------------------------------------------------
(* The vault's scenarios: seal under one passphrase, open under another.   *)

MaxPassLen == 2
MaxSeedStrLen == 2
NumNonces == 2

RECURSIVE SeqsUpTo(_, _)
SeqsUpTo(S, n) ==
    IF n = 0 THEN {<<>>}
    ELSE LET shorter == SeqsUpTo(S, n - 1)
         IN  shorter \cup {Append(s, x) : s \in shorter, x \in S}

Passphrases == SeqsUpTo({112, 80}, MaxPassLen)
SeedStrings == SeqsUpTo({97, 32}, MaxSeedStrLen)
Nonces == 1..NumNonces

NoBlob == [nonce |-> 0, sealed |-> <<>>]
NotOpened == [seed |-> <<>>, err |-> "not called"]

VaultStart ==
    /\ vpc = "start"
    /\ vpass \in Passphrases
    /\ vseed \in SeedStrings
    /\ vblob = NoBlob
    /\ vpass2 = <<>>
    /\ vout = NotOpened

Seal(nonce) ==
    /\ vpc = "start"
    /\ LET r == encryptWalletSeed(vpass, vseed, nonce)
       IN  /\ r.err = "nil"
           /\ vblob' = r.blob
    /\ vpc' = "sealed"
    /\ UNCHANGED <<vpass, vseed, vpass2, vout>>
    /\ UNCHANGED <<codecVars, batchVars>>

Open(pass) ==
    /\ vpc = "sealed"
    /\ vpass2' = pass
    /\ vout' = decryptWalletSeed(pass, vblob)
    /\ vpc' = "opened"
    /\ UNCHANGED <<vpass, vseed, vblob>>
    /\ UNCHANGED <<codecVars, batchVars>>

NextVault ==
    \/ \E nonce \in Nonces : Seal(nonce)
    \/ \E pass \in Passphrases : Open(pass)

----------------------------------------------------------------------------
(* The transactional batch: MultiWallet.batchDbTransaction over a storm    *)
(* (bolt) backend.  Records written through the handle are the open        *)
(* transaction's view tx; Commit makes the view the committed records db,  *)
(* Rollback, and a failed Commit, discard it.                              *)

MaxWrites == 2
MaxCalls == 2
NumValues == 2

Keys == {"k1", "k2"}
Values == 1..NumValues
Absent == 0
OpErrors == {"op error 1", "op error 2"}
PanicValues == {"panic 1", "panic 2"}

NoOutcome == [kind |-> "none", val |-> "nil"]

\* A mutation of the deferred test: an error return no longer rolls back.
UseRollbackOnPanicOnly(p, e) == p

\* A mutation of the deferred test: a panic no longer rolls back.
UseRollbackOnErrorOnly(p, e) == e # "nil"

\* The deferred function's test: panicked || err != nil.
UseRollback(p, e) == p \/ e # "nil"

\* A mutation of the deferred function: Commit's error is not assigned.
DeferredFuncDropsCommitError(p, e, commitErr) ==
    IF UseRollback(p, e) THEN [call |-> "Rollback", err |-> e]
    ELSE [call |-> "Commit", err |-> e]

\* The deferred function: dbTx.Rollback() with its result discarded, or
\* err = dbTx.Commit().
DeferredFunc(p, e, commitErr) ==
    IF UseRollback(p, e) THEN [call |-> "Rollback", err |-> e]
    ELSE [call |-> "Commit", err |-> commitErr]

\* A mutation of the function's exit: the panic is recovered into an error.
CallerSeesRecovered(outcome, e) ==
    IF outcome.kind = "panic" THEN [kind |-> "return", val |-> "recovered"]
    ELSE [kind |-> "return", val |-> e]

\* What the caller observes: the panic of dbOp, which nothing recovers, or
\* the named result err.
CallerSees(outcome, e) ==
    IF outcome.kind = "panic" THEN outcome
    ELSE [kind |-> "return", val |-> e]

BatchStart ==
    /\ bpc = "idle"
    /\ db = [k \in Keys |-> Absent]
    /\ dbBefore = [k \in Keys |-> Absent]
    /\ tx = [k \in Keys |-> Absent]
    /\ txOpen = FALSE
    /\ written = <<>>
    /\ opOutcome = NoOutcome
    /\ panicked = FALSE
    /\ err = "nil"
    /\ calls = <<>>
    /\ failures = {}
    /\ result = NoOutcome
    /\ nbatch = 1

\* mw.db.Begin(true) succeeds; panicked := true; dbOp is entered.
Begin ==
    /\ bpc = "idle"
    /\ dbBefore' = db
    /\ tx' = db
    /\ txOpen' = TRUE
    /\ err' = "nil"
    /\ panicked' = TRUE
    /\ calls' = <<"Begin">>
    /\ bpc' = "op"
    /\ UNCHANGED <<db, written, opOutcome, failures, result, nbatch>>
    /\ UNCHANGED <<codecVars, vaultVars>>

\* mw.db.Begin(true) fails: the error is returned, nothing was deferred.
BeginFails ==
    /\ bpc = "idle"
    /\ dbBefore' = db
    /\ err' = "begin failed"
    /\ calls' = <<"Begin">>
    /\ failures' = {"begin failed"}
    /\ result' = [kind |-> "return", val |-> "begin failed"]
    /\ bpc' = "done"
    /\ UNCHANGED <<db, tx, txOpen, written, opOutcome, panicked, nbatch>>
    /\ UNCHANGED <<codecVars, vaultVars>>

\* dbOp writes (v # Absent) or deletes (v = Absent) a record through the handle.
OpWrite(k, v) ==
    /\ bpc = "op"
    /\ Len(written) < MaxWrites
    /\ tx' = [tx EXCEPT ![k] = v]
    /\ written' = Append(written, k)
    /\ UNCHANGED <<bpc, db, dbBefore, txOpen, opOutcome, panicked, err, calls,
                   failures, result, nbatch>>
    /\ UNCHANGED <<codecVars, vaultVars>>

\* dbOp returns e: err = dbOp(dbTx); panicked = false; return err.
OpReturns(e) ==
    /\ bpc = "op"
    /\ opOutcome' = [kind |-> "return", val |-> e]
    /\ err' = e
    /\ panicked' = FALSE
    /\ calls' = Append(calls, "dbOp ended")
    /\ bpc' = "deferred"
    /\ UNCHANGED <<db, dbBefore, tx, txOpen, written, failures, result, nbatch>>
    /\ UNCHANGED <<codecVars, vaultVars>>

\* dbOp panics: neither assignment after the call runs.
OpPanics(p) ==
    /\ bpc = "op"
    /\ opOutcome' = [kind |-> "panic", val |-> p]
    /\ calls' = Append(calls, "dbOp ended")
    /\ bpc' = "deferred"
    /\ UNCHANGED <<db, dbBefore, tx, txOpen, written, panicked, err, failures,
                   result, nbatch>>
    /\ UNCHANGED <<codecVars, vaultVars>>

\* The deferred function runs and the call ends.  backendOk is whether the
\* backend's Commit or Rollback succeeds.
Finish(backendOk) ==
    /\ bpc = "deferred"
    /\ LET d == DeferredFunc(panicked, err,
                             IF backendOk THEN "nil" ELSE "commit failed")
       IN  /\ calls' = Append(calls, d.call)
           /\ err' = d.err
           /\ db' = IF d.call = "Commit" /\ backendOk THEN tx ELSE db
           /\ failures' =
                  IF backendOk THEN failures
                  ELSE failures \cup {IF d.call = "Commit" THEN "commit failed"
                                      ELSE "rollback failed"}
           /\ result' = CallerSees(opOutcome, d.err)
    /\ txOpen' = FALSE
    /\ bpc' = "done"
    /\ UNCHANGED <<dbBefore, tx, written, opOutcome, panicked, nbatch>>
    /\ UNCHANGED <<codecVars, vaultVars>>

\* The caller makes its next call.
NextCall ==
    /\ bpc = "done"
    /\ nbatch < MaxCalls
    /\ nbatch' = nbatch + 1
    /\ bpc' = "idle"
    /\ written' = <<>>
    /\ opOutcome' = NoOutcome
    /\ panicked' = FALSE
    /\ err' = "nil"
    /\ calls' = <<>>
    /\ failures' = {}
    /\ result' = NoOutcome
    /\ dbBefore' = db
    /\ tx' = db
    /\ UNCHANGED <<db, txOpen>>
    /\ UNCHANGED <<codecVars, vaultVars>>

NextBatch ==
    \/ Begin
    \/ BeginFails
    \/ \E k \in Keys, v \in Values \cup {Absent} : OpWrite(k, v)
    \/ \E e \in OpErrors \cup {"nil"} : OpReturns(e)
    \/ \E p \in PanicValues : OpPanics(p)
    \/ \E backendOk \in BOOLEAN : Finish(backendOk)
    \/ NextCall

----------------------------------------------------------------------------------------------------------------------------------------
(* The specifications.  Each runs one component; the others rest.          *)

CodecRests ==
    /\ cpc = "start" /\ cseed = <<>> /\ ckind = "none" /\ cmut = 0
    /\ cinput = <<>> /\ cout = NoResult
VaultRests ==
    /\ vpc = "start" /\ vpass = <<>> /\ vseed = <<>> /\ vblob = NoBlob
    /\ vpass2 = <<>> /\ vout = NotOpened
BatchRests == BatchStart

InitCodecSpec == VaultRests /\ BatchRests /\ CodecStart
InitVaultSpec == CodecRests /\ BatchRests /\ VaultStart
InitBatchSpec == CodecRests /\ VaultRests /\ BatchStart

SpecCodec == InitCodecSpec /\ [][NextCodec]_vars
SpecVault == InitVaultSpec /\ [][NextVault]_vars
SpecBatch == InitBatchSpec /\ [][NextBatch]_vars

----------------------------------------------------------------------------
(* The properties.                                                         *)

OpFailed ==
    \/ opOutcome.kind = "panic"
    \/ opOutcome.kind = "return" /\ opOutcome.val # "nil"

\* C1 (batch atomicity): while dbOp runs and until the call has finalized,
\* the committed records are those of before the call; and when dbOp wrote
\* through the handle and then returned a non-nil error or panicked, they
\* still are after the call ended.
C1_BatchAtomicity ==
    /\ bpc \in {"op", "deferred"} => db = dbBefore
    /\ (bpc = "done" /\ OpFailed) => db = dbBefore

C1_Witness ==
    /\ bpc = "done"
    /\ opOutcome.kind = "panic"
    /\ Len(written) = 2
    /\ tx # dbBefore
    /\ dbBefore # [k \in Keys |-> Absent]

\* C2 (finalized exactly once): after a successful Begin nothing finalizes
\* the transaction before dbOp has ended; once the call is over exactly one
\* of Commit and Rollback was called, after dbOp ended, and it was Commit
\* if and only if dbOp returned nil.
C2_FinalizedOnce ==
    /\ bpc = "op" => calls = <<"Begin">> /\ txOpen
    /\ bpc = "deferred" => calls = <<"Begin", "dbOp ended">> /\ txOpen
    /\ (bpc = "done" /\ "begin failed" \notin failures) =>
          /\ ~txOpen
          /\ \/ calls = <<"Begin", "dbOp ended", "Commit">>
             \/ calls = <<"Begin", "dbOp ended", "Rollback">>
          /\ calls[3] = "Commit" <=> opOutcome = [kind |-> "return", val |-> "nil"]

C2_Witness ==
    /\ bpc = "done"
    /\ calls = <<"Begin", "dbOp ended", "Commit">>
    /\ db # dbBefore

\* C3 (panic propagation): when dbOp panics, the caller observes that same
\* panic, never an error return, and by then the transaction was rolled
\* back and never committed.
C3_PanicPropagates ==
    /\ (bpc = "done" /\ opOutcome.kind = "panic") =>
          /\ result = opOutcome
          /\ calls = <<"Begin", "dbOp ended", "Rollback">>
          /\ ~txOpen
    /\ result.kind = "panic" => opOutcome.kind = "panic" /\ bpc = "done"

C3_Witness ==
    /\ bpc = "done"
    /\ result = [kind |-> "panic", val |-> "panic 2"]
    /\ nbatch = 2

\* C9 as stated: every backend failure of the call, Begin's, Commit's or
\* Rollback's, is the error the caller receives.
C9_Original ==
    bpc = "done" => \A f \in failures : result = [kind |-> "return", val |-> f]

\* C9 as amended: a failure of Begin or of Commit is the error the caller
\* receives; a failure of Rollback is discarded, and the caller receives what
\* dbOp raised: its non-nil error, or its panic.
C9_BeginCommitPropagate ==
    bpc = "done" =>
        /\ "begin failed" \in failures =>
              result = [kind |-> "return", val |-> "begin failed"]
        /\ "commit failed" \in failures =>
              result = [kind |-> "return", val |-> "commit failed"]
        /\ "rollback failed" \in failures => result = opOutcome /\ OpFailed

C9_Witness ==
    /\ bpc = "done"
    /\ "rollback failed" \in failures
    /\ result.kind = "return"

SeedLenOk(n) == n >= MinSeedBytes /\ n <= MaxSeedBytes
InvalidSeedLen == [seed |-> <<>>, err |-> "hdkeychain.ErrInvalidSeedLen"]

\* C4 (mnemonic round trip): for a seed of MinSeedBytes to MaxSeedBytes
\* bytes, DecodeUserInput(EncodeMnemonic(seed)) returns the seed, no error.
C4_RoundTrip ==
    (cpc = "decoded" /\ ckind = "encoded" /\ SeedLenOk(Len(cseed))) =>
        cout = [seed |-> cseed, err |-> "nil"]

C4_Witness ==
    /\ cpc = "decoded"
    /\ ckind = "encoded"
    /\ Len(cseed) = MaxSeedBytes
    /\ cout = [seed |-> cseed, err |-> "nil"]

\* C5 as stated: a single hexadecimal token is decoded to its bytes and
\* those bytes are returned; "deadbeef" returns DE AD BE EF without error.
C5_Original ==
    /\ (cpc = "decoded" /\ ckind = "hex") => cout = [seed |-> cseed, err |-> "nil"]
    /\ (cpc = "decoded" /\ cinput = DeadBeef) =>
          cout = [seed |-> <<222, 173, 190, 239>>, err |-> "nil"]

\* C5 as amended: a single hexadecimal token is decoded to its bytes, and
\* those bytes are returned when there are MinSeedBytes to MaxSeedBytes of
\* them; otherwise the call fails with the invalid seed length error, as
\* "deadbeef" (4 bytes) does.
C5_HexWithinBounds ==
    /\ (cpc = "decoded" /\ ckind = "hex") =>
          IF SeedLenOk(Len(cseed)) THEN cout = [seed |-> cseed, err |-> "nil"]
          ELSE cout = InvalidSeedLen
    /\ (cpc = "decoded" /\ cinput = DeadBeef) => cout = InvalidSeedLen

C5_Witness ==
    /\ cpc = "decoded"
    /\ ckind = "hex"
    /\ Len(cseed) = MinSeedBytes
    /\ cout = [seed |-> cseed, err |-> "nil"]
    /\ \E i \in 1..Len(cinput) : cinput[i] \in 65..70

Mutated == ckind \in {"removed", "duplicated"}
ParityError == "word is not valid at position"

BranchLeavesBadLength(r) == r.err = "nil" /\ ~SeedLenOk(Len(r.seed))

\* C8 (the length gate): a seed returned without error has MinSeedBytes to
\* MaxSeedBytes bytes; an error comes with no bytes; and when the hex
\* branch, the mnemonic branch or an empty input leaves a seed outside the
\* bounds, the call fails with the invalid seed length error.
C8_LengthGate ==
    cpc = "decoded" =>
        /\ cout.err = "nil" => SeedLenOk(Len(cout.seed))
        /\ cout.err # "nil" => cout.seed = <<>>
        /\ (ckind = "hex" /\ ~SeedLenOk(Len(cseed))) => cout = InvalidSeedLen
        /\ (ckind = "encoded" /\ Len(cseed) >= 1 /\ ~SeedLenOk(Len(cseed))) =>
              cout = InvalidSeedLen
        /\ TrimSpace(cinput) = <<>> => cout = InvalidSeedLen
        /\ BranchLeavesBadLength(DecodeSwitch(SplitSpace(TrimSpace(cinput)))) =>
              cout = InvalidSeedLen

C8_Witness ==
    /\ cpc = "decoded"
    /\ ckind = "encoded"
    /\ Len(cseed) = MaxSeedBytes + 1
    /\ cout = InvalidSeedLen

\* The words the format names for a seed: entry 2*seed[i] + (i mod 2) for
\* position i (from 0), then entry 2*checksum + (len mod 2).
FormatWords(seed) ==
    [i \in 1..(Len(seed) + 1) |->
        IF i <= Len(seed) THEN wordList[2 * seed[i] + ((i - 1) % 2) + 1]
        ELSE wordList[2 * checksumByte(seed) + (Len(seed) % 2) + 1]]

\* C10 (encoding format): EncodeMnemonic(seed), for a seed of any length,
\* the empty one included, is the len(seed) + 1 words of the format joined
\* by single spaces, with no leading or trailing whitespace.
C10_Format ==
    (cpc = "phrase" /\ ckind = "encoded") => cinput = JoinWords(FormatWords(cseed))

=============================================================================
